---- MODULE Spec2Model ----
(***************************************************************************)
(* The run-lifecycle state machine of cleansys (src/src/app.rs, the "real" *)
(* scheduler) together with its credential prompt                          *)
(* (src/src/components/password_prompt.rs).                                *)
(*                                                                         *)
(* Indices are 1-based here (Rust: 0-based).  An entry is a pair <<c, i>>: *)
(* category c, item i.  Catalog order is (c, i) lexicographic.             *)
(***************************************************************************)
EXTENDS Integers, Sequences, FiniteSets, TLC

VARIABLES
    categories,              \* entry -> [selected, status, bytes_cleaned]
                             \* (CleanerItem's mutable fields)
    category_index,          \* App.category_index
    item_list_state,         \* App.item_list_state.selected(): Some(i) as i >= 1, None as 0
    is_root,                 \* App.is_root (check_root() at construction)
    is_running,              \* App.is_running
    show_help,               \* App.show_help
    show_progress_screen,    \* App.show_progress_screen
    search_active,           \* App.search_active
    operation_end_time,      \* App.operation_end_time: "None" | "Some"
    demo_operation_timer,    \* App.demo_operation_timer: "None" | "Some"
    clock,                   \* history: the last reading (ms) of demo_operation_timer
                             \* taken in the run in progress; 0 when none is
    demo_operations_completed, \* App.demo_operations_completed
    total_bytes_cleaned,     \* App.total_bytes_cleaned
    result_messages,         \* App.result_messages (sequence of message kinds)
    password_prompt,         \* App.password_prompt (PasswordPrompt's fields)
    needs_sudo,              \* App.needs_sudo
    pending_operations,      \* App.pending_operations (sequence of entries)
    should_quit,             \* handle_key returned Ok(true): the event loop has ended
    invoked,                 \* history: entries whose run function the last handler called
    released,                \* history: the entries of the request that was dispatched
                             \* for the run in progress; empty when none is
    detailed_cleaned_items,  \* App.detailed_cleaned_items (sequence of records)
    insertions,              \* history (StoreSpec): add_detailed_cleaned_item calls since
                             \* the store was last empty
    captured_result,         \* the Ok((bytes, output)) a run function's capture returned
    search_query,            \* App.search_query
    detailed_view_filter,    \* App.detailed_view_filter
    sort_mode,               \* App.sort_mode
    filtered_items,          \* history: what the last get_filtered_detailed_items call
                             \* returned, as indices into detailed_cleaned_items
    phase                    \* history: which step of a detailed-view specification was taken last

\* The fields of the detailed results view.  Spec, the run-lifecycle state
\* machine, leaves the view out and keeps them idle; StoreSpec, ExtractSpec
\* and QuerySpec below are about the view and keep the run-lifecycle fields
\* idle instead.
detailVars == << detailed_cleaned_items, insertions, captured_result,
                 search_query, detailed_view_filter, sort_mode, filtered_items,
                 phase >>

vars == << categories, category_index, item_list_state, is_root, is_running,
           show_help, show_progress_screen, search_active, operation_end_time,
           demo_operation_timer, clock, demo_operations_completed,
           total_bytes_cleaned, result_messages, password_prompt, needs_sudo,
           pending_operations, should_quit, invoked, released, detailVars >>

----------------------------------------------------------------------------
(* Bounds                                                                  *)

\* Longest error text a run function returns, in characters.
MaxTextLen == 3

\* Longest credential typed into the prompt.
MaxPwLen == 1
\* Largest elapsed time (ms) a tick observes on the pacing timer.
MaxElapsed == 4500
\* Longest result_messages list (run_selected with nothing selected appends
\* one message per call, without bound).
MaxMessages == 1
\* Most add_detailed_cleaned_item calls followed from an empty store.
MaxInsertions == 1002
\* Most lines of captured output of one run function.
MaxLines == 2
\* Most records in the store a query is made on.
MaxStored == 3

----------------------------------------------------------------------------
(* Catalog                                                                 *)

\* requires_root of every item, per category, as load_cleaners builds it:
\* the user category first (requires_root = false), then the system
\* category (requires_root = true).
Catalog == << <<FALSE>>, <<TRUE, TRUE>> >>

NumCategories == Len(Catalog)
ItemsLen(c) == Len(Catalog[c])
Entries == UNION { { <<c, i>> : i \in 1..ItemsLen(c) } : c \in 1..NumCategories }
\* Faulty variant: the system items are loaded with requires_root = false, as the
\* user items are.
requires_root_AllFalse(e) == FALSE
requires_root(e) == Catalog[e[1]][e[2]]

\* (c1, i1) comes before (c2, i2) in the order of the nested iteration
\* `for category in categories { for item in category.items`.
Before(e1, e2) == e1[1] < e2[1] \/ (e1[1] = e2[1] /\ e1[2] < e2[2])

\* The entries of S as the nested iteration visits them.
RECURSIVE InCatalogOrder(_)
InCatalogOrder(S) ==
    IF S = {} THEN << >>
    ELSE LET first == CHOOSE e \in S : \A f \in S \ {e} : Before(e, f)
         IN  << first >> \o InCatalogOrder(S \ {first})

----------------------------------------------------------------------------
(* Status (Option<Status>) and the messages of result_messages            *)

NoStatus     == "None"
Pending      == "Pending"
Running      == "Running"
Success      == "Success"
ErrCancelled == "Error(Operation cancelled by user)"
ErrSudo      == "Error(Requires sudo - restart with 'sudo cleansys')"
ErrFailed    == "Error(Failed: ...)"

ErrorStatuses == { ErrCancelled, ErrSudo, ErrFailed }
Statuses == { NoStatus, Pending, Running, Success } \cup ErrorStatuses
IsError(s) == s \in ErrorStatuses

MsgNoItems   == "No items selected. Please select items to clean."
MsgHint      == "System cleaners require root privileges. Run 'sudo cleansys' to clean system files."
MsgCompleted == "Cleaning completed! Total space freed: ... (Press ESC to return to main menu)"
MsgCancelled == "Cleaning operations cancelled by user."

\* msg.contains("sudo cleansys"): of the four messages only the hint does.
ContainsSudoCleansys(m) == m = MsgHint
\* msg.contains("Completed"): none of the four messages does (the completion
\* message reads "Cleaning completed!", with a lower-case c).
ContainsCompleted(m) == FALSE

SelectedEntries(cats) == { e \in Entries : cats[e].selected }
WithStatus(cats, s) == { e \in Entries : cats[e].status = s }
SetStatus(cats, S, s) ==
    [ e \in Entries |-> IF e \in S THEN [cats[e] EXCEPT !.status = s] ELSE cats[e] ]
SeqToSet(q) == { q[k] : k \in 1..Len(q) }
\* The values of a function.
Range(f) == { f[x] : x \in DOMAIN f }

----------------------------------------------------------------------------
(* PasswordPrompt (src/src/components/password_prompt.rs)                  *)

PromptNew ==
    [ password_input |-> << >>, error_message |-> "None",
      visible |-> FALSE, authenticated |-> FALSE ]

\* Faulty variant: showing the prompt forgets an earlier authentication.
show_ResetsAuthentication(p) ==
    [ p EXCEPT !.visible = TRUE, !.password_input = << >>,
               !.error_message = "None", !.authenticated = FALSE ]

show(p) == [ p EXCEPT !.visible = TRUE, !.password_input = << >>,
                      !.error_message = "None" ]

\* Faulty variant: the buffer is cleared and the prompt stays up.
hide_StaysVisible(p) ==
    [ p EXCEPT !.password_input = << >>, !.error_message = "None" ]

hide(p) == [ p EXCEPT !.visible = FALSE, !.password_input = << >>,
                      !.error_message = "None" ]

is_visible(p) == p.visible
is_authenticated(p) == p.authenticated

add_char(p, c) == [ p EXCEPT !.password_input = Append(@, c) ]

remove_char(p) ==
    [ p EXCEPT !.password_input = IF @ = << >> THEN @ ELSE SubSeq(@, 1, Len(@) - 1) ]

\* What `sudo -S -v` fed with the typed secret can do: the child cannot be
\* spawned or waited for ("error"), it exits 0 ("success"), or it exits
\* non-zero ("failure").  The outcome is the environment's choice.
SudoOutcomes == { "success", "failure", "error" }

\* Faulty variant: a failed verification forgets an earlier success.
verify_password_FailureForgets(p, outcome) ==
    CASE outcome = "success" ->
           [ prompt |-> [ p EXCEPT !.authenticated = TRUE, !.visible = FALSE,
                                   !.password_input = << >>,
                                   !.error_message = "None" ],
             result |-> "Ok(true)" ]
      [] outcome = "failure" ->
           [ prompt |-> [ p EXCEPT !.error_message = "Incorrect password. Please try again.",
                                   !.password_input = << >>,
                                   !.authenticated = FALSE ],
             result |-> "Ok(false)" ]
      [] OTHER ->
           [ prompt |-> p, result |-> "Err" ]

\* verify_password: the prompt after the call, and the call's result.
verify_password(p, outcome) ==
    CASE outcome = "success" ->
           [ prompt |-> [ p EXCEPT !.authenticated = TRUE, !.visible = FALSE,
                                   !.password_input = << >>,
                                   !.error_message = "None" ],
             result |-> "Ok(true)" ]
      [] outcome = "failure" ->
           [ prompt |-> [ p EXCEPT !.error_message = "Incorrect password. Please try again.",
                                   !.password_input = << >> ],
             result |-> "Ok(false)" ]
      [] OTHER ->
           [ prompt |-> p, result |-> "Err" ]

submit(p, outcome) == verify_password(p, outcome)

\* Faulty variant: cancel clears the buffer but leaves the prompt up.
cancel_StaysVisible(p) ==
    [ p EXCEPT !.password_input = << >>, !.error_message = "None" ]

cancel(p) == hide(p)

----------------------------------------------------------------------------
(* App (src/src/app.rs)                                                    *)

appVars == << categories, category_index, item_list_state, is_root, is_running,
              show_help, show_progress_screen, search_active, operation_end_time,
              demo_operation_timer, clock, demo_operations_completed,
              total_bytes_cleaned, result_messages, password_prompt, needs_sudo,
              pending_operations >>
cursorVars == << category_index, item_list_state >>
runVars == << is_running, show_progress_screen, operation_end_time,
              demo_operation_timer, clock, demo_operations_completed,
              total_bytes_cleaned >>
gateVars == << password_prompt, needs_sudo, pending_operations >>

\* App::new followed by load_cleaners: nothing selected, no status, cursor on
\* the first item of the first category, prompt hidden.  is_root is what
\* check_root() found and never changes afterwards.
AppNew ==
    /\ categories = [ e \in Entries |->
                         [ selected |-> FALSE, status |-> NoStatus, bytes_cleaned |-> 0 ] ]
    /\ category_index = 1
    /\ item_list_state = 1
    /\ is_root \in BOOLEAN
    /\ is_running = FALSE
    /\ show_help = FALSE
    /\ show_progress_screen = FALSE
    /\ search_active = FALSE
    /\ operation_end_time = "None"
    /\ demo_operation_timer = "None"
    /\ clock = 0
    /\ demo_operations_completed = 0
    /\ total_bytes_cleaned = 0
    /\ result_messages = << >>
    /\ password_prompt = PromptNew
    /\ needs_sudo = FALSE
    /\ pending_operations = << >>
    /\ should_quit = FALSE
    /\ invoked = << >>
    /\ released = {}

\* The detailed view left out.
DetailIdle ==
    /\ detailed_cleaned_items = << >>
    /\ insertions = 0
    /\ captured_result = [ bytes |-> 0, output |-> << >> ]
    /\ search_query = << >>
    /\ detailed_view_filter = << >>
    /\ sort_mode = "Category"
    /\ filtered_items = << >>
    /\ phase = "idle"

Init == AppNew /\ DetailIdle

\* Faulty variant: only the elevation-requiring entries are collected.
selected_cleaners_RootOnly(cats) ==
    InCatalogOrder({ e \in SelectedEntries(cats) : requires_root(e) })

\* The selected_cleaners vector run_selected builds (lines 431-446).
selected_cleaners(cats) == InCatalogOrder(SelectedEntries(cats))
has_root_operations(cats) == \E e \in SelectedEntries(cats) : requires_root(e)

\* run_selected's test for parking the request behind the prompt (line 455).
NeedsPrompt(cats) == has_root_operations(cats) /\ ~is_root

\* Faulty variant: the reset of every status to None is left out.
DispatchStatuses_NoReset(cats) ==
    [ e \in Entries |->
        IF cats[e].selected THEN [ cats[e] EXCEPT !.status = Pending ] ELSE cats[e] ]

\* The entries as run_selected leaves them when it dispatches (lines
\* 476-487): bytes_cleaned and status of every entry reset, then every
\* selected entry set to Pending.
DispatchStatuses(cats) ==
    [ e \in Entries |->
        [ cats[e] EXCEPT !.bytes_cleaned = 0,
                         !.status = IF cats[e].selected THEN Pending ELSE NoStatus ] ]

\* Faulty variant: the message is pushed twice.
NoSelectionMessages_Twice(msgs) == Append(Append(msgs, MsgNoItems), MsgNoItems)

\* result_messages after run_selected found nothing selected (lines 424-428).
NoSelectionMessages(msgs) == Append(msgs, MsgNoItems)

\* Faulty variant: the test of is_running is left out.
run_selected_Restarts ==
    IF SelectedEntries(categories) = {} THEN
        /\ Len(result_messages) < MaxMessages
        /\ result_messages' = NoSelectionMessages(result_messages)
        /\ UNCHANGED << categories, cursorVars, is_root, show_help, search_active,
                        runVars, gateVars >>
    ELSE IF NeedsPrompt(categories) THEN
        /\ needs_sudo' = TRUE
        /\ password_prompt' = show(password_prompt)
        /\ pending_operations' = selected_cleaners(categories)
        /\ UNCHANGED << categories, cursorVars, is_root, show_help, search_active,
                        runVars, result_messages >>
    ELSE
        /\ is_running' = TRUE
        /\ show_progress_screen' = TRUE
        /\ operation_end_time' = "None"
        /\ demo_operation_timer' = "Some"
        /\ clock' = 0
        /\ demo_operations_completed' = 0
        /\ total_bytes_cleaned' = 0
        /\ result_messages' = << >>
        /\ categories' = DispatchStatuses(categories)
        /\ UNCHANGED << cursorVars, is_root, show_help, search_active, gateVars >>

\* run_selected (lines 404-506).
run_selected ==
    IF is_running THEN
        UNCHANGED appVars
    ELSE IF SelectedEntries(categories) = {} THEN
        /\ Len(result_messages) < MaxMessages
        /\ result_messages' = NoSelectionMessages(result_messages)
        /\ UNCHANGED << categories, cursorVars, is_root, show_help, search_active,
                        runVars, gateVars >>
    ELSE IF NeedsPrompt(categories) THEN
        /\ needs_sudo' = TRUE
        /\ password_prompt' = show(password_prompt)
        /\ pending_operations' = selected_cleaners(categories)
        /\ UNCHANGED << categories, cursorVars, is_root, show_help, search_active,
                        runVars, result_messages >>
    ELSE
        /\ is_running' = TRUE
        /\ show_progress_screen' = TRUE
        /\ operation_end_time' = "None"
        /\ demo_operation_timer' = "Some"
        /\ clock' = 0
        /\ demo_operations_completed' = 0
        /\ total_bytes_cleaned' = 0
        /\ result_messages' = << >>
        /\ categories' = DispatchStatuses(categories)
        /\ UNCHANGED << cursorVars, is_root, show_help, search_active, gateVars >>

\* Faulty variant: the completion test forgets that is_running must hold.
IsComplete_IgnoresRunning(cats, running) ==
    /\ Cardinality({ e \in Entries : cats[e].status # NoStatus }) > 0
    /\ Cardinality(WithStatus(cats, Running)) = 0
    /\ Cardinality(WithStatus(cats, Pending)) = 0
    /\ Cardinality(SelectedEntries(cats)) > 0

\* update_counters' completion test (lines 1144-1167) on given field values.
\* operation_count counts the entries whose status is Some(_).
IsComplete(cats, running) ==
    /\ running
    /\ Cardinality({ e \in Entries : cats[e].status # NoStatus }) > 0
    /\ Cardinality(WithStatus(cats, Running)) = 0
    /\ Cardinality(WithStatus(cats, Pending)) = 0
    /\ Cardinality(SelectedEntries(cats)) > 0

\* update_counters as a function of the fields it reads; the fields it writes.
update_counters(cats, running, timer, end_time, msgs) ==
    IF IsComplete(cats, running) THEN
        [ is_running |-> FALSE,
          demo_operation_timer |-> "None",
          operation_end_time |-> "Some",
          result_messages |->
              IF \E k \in 1..Len(msgs) : ContainsCompleted(msgs[k])
              THEN msgs ELSE Append(msgs, MsgCompleted) ]
    ELSE
        [ is_running |-> running,
          demo_operation_timer |-> timer,
          operation_end_time |-> end_time,
          result_messages |-> msgs ]

\* Faulty variant: only the Running entries are cancelled.
CancelledEntries_RunningOnly(cats) ==
    { e \in Entries : cats[e].selected /\ cats[e].status = Running }

\* cancel_sudo_operations' effect on the entries (lines 749-756).
CancelledEntries(cats) ==
    { e \in Entries : cats[e].selected /\ cats[e].status \in { Running, Pending } }

cancel_sudo_operations(cats) ==
    [ e \in Entries |->
        IF e \in CancelledEntries(cats)
        THEN [ cats[e] EXCEPT !.selected = FALSE, !.status = ErrCancelled ]
        ELSE cats[e] ]

----------------------------------------------------------------------------
(* The scheduler tick: update_animation -> update_demo_operations         *)

\* "Start next operation every 1.5 seconds" (line 543).
START_INTERVAL == 1500

\* How far the pacing timer may have advanced between two ticks (ms).
ClockSteps == { 0, 750, 1500 }

\* The byte counts a run function reports.
BytesFreed == { 0, 1 }

\* What executing one Running entry can do: capture_output cannot set up
\* its pipes and fails before calling the run function ("capture_err"), or
\* the run function is called and returns Ok(bytes) ("ok") or Err ("err").
RunOutcomes ==
    [ kind : { "ok" }, bytes : BytesFreed ]
        \cup [ kind : { "err", "capture_err" }, bytes : { 0 } ]

\* Faulty variant: an entry is promoted whenever one is Pending.
Promotes_NoPacing(cats, elapsed, completed) ==
    WithStatus(cats, Pending) # {}

\* The first Pending entry is promoted when the pacing allows (lines 543-554).
Promotes(cats, elapsed, completed) ==
    /\ (elapsed \div START_INTERVAL) > completed
    /\ WithStatus(cats, Pending) # {}

\* Faulty variant: every Pending entry is promoted at once.
AfterPromotion_All(cats, elapsed, completed) ==
    IF Promotes(cats, elapsed, completed)
    THEN SetStatus(cats, WithStatus(cats, Pending), Running)
    ELSE cats

\* Faulty variant: the last Pending entry is promoted, not the first.
AfterPromotion_Last(cats, elapsed, completed) ==
    IF Promotes(cats, elapsed, completed)
    THEN LET pending == InCatalogOrder(WithStatus(cats, Pending))
         IN  SetStatus(cats, { pending[Len(pending)] }, Running)
    ELSE cats

AfterPromotion(cats, elapsed, completed) ==
    IF Promotes(cats, elapsed, completed)
    THEN SetStatus(cats, { InCatalogOrder(WithStatus(cats, Pending))[1] }, Running)
    ELSE cats

\* The privilege check made before the run function is called (lines 577-579).
LacksPrivilege(e, prompt) ==
    requires_root(e) /\ ~is_root /\ ~is_authenticated(prompt)

\* The test that picks the "Requires sudo" reason and allows the hint
\* (lines 712, 730-731).
RequiresSudoReason(e) == requires_root(e) /\ ~is_root

\* The characters of an error text: a letter, the separator and a blank.
TextChars == { "e", ":", " " }

\* e.to_string() of the error a run function returns: any text over
\* TextChars, as a sequence of characters.
ErrorTexts == UNION { [ 1..n -> TextChars ] : n \in 0..MaxTextLen }

\* text.split(':').next_back(): what follows the last ':', the whole text
\* if it has none (split always yields at least one piece).
next_back_split(text) ==
    LET colons == { k \in 1..Len(text) : text[k] = ":" }
        last == IF colons = {} THEN 0
                ELSE CHOOSE k \in colons : \A j \in colons : j <= k
    IN  SubSeq(text, last + 1, Len(text))

\* char::is_whitespace, over the characters used here.
is_whitespace(c) == c \in { " ", "\t" }

\* str::trim: leading and trailing whitespace removed.
trim(t) ==
    LET solid == { k \in 1..Len(t) : ~is_whitespace(t[k]) }
    IN  IF solid = {} THEN << >>
        ELSE SubSeq(t, CHOOSE k \in solid : \A j \in solid : k <= j,
                       CHOOSE k \in solid : \A j \in solid : j <= k)

\* error_msg (lines 712-723) for entry e whose result is Err(text), as a
\* sequence: the fixed text, or "Failed: " followed by the characters of
\* the trimmed last segment.
error_msg(e, text) ==
    IF RequiresSudoReason(e)
    THEN << "Requires sudo - restart with 'sudo cleansys'" >>
    ELSE << "Failed: " >> \o trim(next_back_split(text))

\* Faulty variant: a failed entry also ends the run.
FailEntry_Aborts(st, e) ==
    LET hint ==
            /\ RequiresSudoReason(e)
            /\ ~\E k \in 1..Len(st.result_messages) :
                   ContainsSudoCleansys(st.result_messages[k])
    IN  [ st EXCEPT !.categories[e].status =
                        IF RequiresSudoReason(e) THEN ErrSudo ELSE ErrFailed,
                    !.is_running = FALSE,
                    !.result_messages = IF hint THEN Append(@, MsgHint) ELSE @ ]

\* Faulty variant: the hint is appended without looking for an earlier one.
FailEntry_NoDedup(st, e) ==
    [ st EXCEPT !.categories[e].status =
                    IF RequiresSudoReason(e) THEN ErrSudo ELSE ErrFailed,
                !.result_messages =
                    IF RequiresSudoReason(e) THEN Append(@, MsgHint) ELSE @ ]

\* The Err arm of `match result` (lines 711-741): the entry's status becomes
\* Error and the hint is appended unless result_messages already has it.
FailEntry(st, e) ==
    LET hint ==
            /\ RequiresSudoReason(e)
            /\ ~\E k \in 1..Len(st.result_messages) :
                   ContainsSudoCleansys(st.result_messages[k])
    IN  [ st EXCEPT !.categories[e].status =
                        IF RequiresSudoReason(e) THEN ErrSudo ELSE ErrFailed,
                    !.result_messages = IF hint THEN Append(@, MsgHint) ELSE @ ]

\* One iteration of the loop over running_operations (lines 573-743) on the
\* fields it touches; o is the outcome of executing entry e.
ExecuteOne(st, e, o) ==
    LET blocked == LacksPrivilege(e, st.password_prompt)
        st1 == IF blocked
               THEN [ st EXCEPT !.needs_sudo = TRUE,
                                !.password_prompt = show(@),
                                !.is_running = FALSE ]
               ELSE [ st EXCEPT !.invoked =
                                   IF o.kind = "capture_err" THEN @ ELSE Append(@, e) ]
    IN  IF ~blocked /\ o.kind = "ok"
        THEN [ st1 EXCEPT !.categories[e].status = Success,
                          !.categories[e].bytes_cleaned = o.bytes,
                          !.total_bytes_cleaned = @ + o.bytes ]
        ELSE FailEntry(st1, e)

\* The byte count the simulated scheduler makes up for a failed user entry
\* (src/src/ui/app.rs lines 535-536; cat_idx and item_idx are 0-based).
SimulatedBytes(e) == 1024 * 1024 * (2 + (((e[1] - 1) + (e[2] - 1)) % 10))

\* The same loop body in the simulated scheduler (src/src/ui/app.rs lines
\* 513-599): a system entry is refused whenever the process is not root,
\* the run function is called directly, and a user entry whose run function
\* fails is given a simulated byte count instead of an error.
ui_ExecuteOne(st, e, o) ==
    LET refused == requires_root(e) /\ ~is_root
        st1 == IF refused THEN st ELSE [ st EXCEPT !.invoked = Append(@, e) ]
        result ==
            IF refused THEN [ kind |-> "err", bytes |-> 0 ]
            ELSE IF o.kind = "ok" THEN o
            ELSE IF ~requires_root(e) THEN [ kind |-> "ok", bytes |-> SimulatedBytes(e) ]
            ELSE [ kind |-> "err", bytes |-> 0 ]
    IN  IF result.kind = "ok"
        THEN [ st1 EXCEPT !.categories[e].status = Success,
                          !.categories[e].bytes_cleaned = result.bytes,
                          !.total_bytes_cleaned = @ + result.bytes ]
        ELSE LET error_status ==
                     IF requires_root(e) /\ ~is_root THEN ErrSudo ELSE ErrFailed
                 hint ==
                     /\ requires_root(e)
                     /\ ~is_root
                     /\ ~\E k \in 1..Len(st1.result_messages) :
                            ContainsSudoCleansys(st1.result_messages[k])
             IN  [ st1 EXCEPT !.categories[e].status = error_status,
                              !.result_messages =
                                  IF hint THEN Append(@, MsgHint) ELSE @ ]

\* The whole loop, over the Running entries in catalog order.
RECURSIVE ExecuteAll(_, _, _)
ExecuteAll(st, running_operations, outcome) ==
    IF running_operations = << >> THEN st
    ELSE ExecuteAll(ExecuteOne(st, Head(running_operations),
                               outcome[Head(running_operations)]),
                    Tail(running_operations), outcome)

\* update_demo_operations with the timer reading elapsed ms.
update_demo_operations(elapsed) ==
    IF demo_operation_timer = "None" THEN
        /\ invoked' = << >>
        /\ UNCHANGED << categories, is_running, result_messages, gateVars,
                        demo_operations_completed, total_bytes_cleaned >>
    ELSE
        LET promoted == AfterPromotion(categories, elapsed, demo_operations_completed)
            running_operations == InCatalogOrder(WithStatus(promoted, Running))
        IN  \E outcome \in [ WithStatus(promoted, Running) -> RunOutcomes ] :
                LET st == ExecuteAll(
                              [ categories |-> promoted,
                                needs_sudo |-> needs_sudo,
                                password_prompt |-> password_prompt,
                                is_running |-> is_running,
                                result_messages |-> result_messages,
                                total_bytes_cleaned |-> total_bytes_cleaned,
                                invoked |-> << >> ],
                              running_operations, outcome)
                IN  /\ categories' = st.categories
                    /\ needs_sudo' = st.needs_sudo
                    /\ password_prompt' = st.password_prompt
                    /\ is_running' = st.is_running
                    /\ result_messages' = st.result_messages
                    /\ total_bytes_cleaned' = st.total_bytes_cleaned
                    /\ invoked' = st.invoked
                    /\ demo_operations_completed' =
                           IF Promotes(categories, elapsed, demo_operations_completed)
                           THEN demo_operations_completed + 1
                           ELSE demo_operations_completed
                    /\ UNCHANGED pending_operations

\* The request of the run in progress after a step: what run_selected
\* collected (selected_cleaners, lines 431-446) or what the prompt's Enter
\* took from pending_operations (line 771) when the step dispatches a run,
\* the same as before while the run goes on, nothing once it is over.
ReleasedAfter ==
    IF ~is_running' THEN {}
    ELSE IF is_running THEN released
    ELSE IF is_visible(password_prompt) THEN SeqToSet(pending_operations)
    ELSE SeqToSet(selected_cleaners(categories))

\* Event::Tick (main.rs lines 155-160): update_animation while a run is in
\* progress, which calls update_demo_operations; nothing otherwise.  The
\* timer is read once.
Tick ==
    /\ ~should_quit
    /\ IF is_running THEN
           \E d \in ClockSteps :
              /\ clock + d <= MaxElapsed
              /\ update_demo_operations(clock + d)
              /\ clock' = IF is_running' THEN clock + d ELSE 0
       ELSE
           /\ invoked' = << >>
           /\ UNCHANGED << categories, is_running, result_messages, gateVars,
                           demo_operations_completed, total_bytes_cleaned, clock >>
    /\ released' = ReleasedAfter
    /\ UNCHANGED << cursorVars, is_root, show_help, show_progress_screen,
                    search_active, operation_end_time, demo_operation_timer,
                    should_quit, detailVars >>

\* The completion check the progress view makes when it is drawn.
UpdateCounters ==
    /\ ~should_quit
    /\ LET r == update_counters(categories, is_running, demo_operation_timer,
                                operation_end_time, result_messages)
       IN  /\ is_running' = r.is_running
           /\ demo_operation_timer' = r.demo_operation_timer
           /\ operation_end_time' = r.operation_end_time
           /\ result_messages' = r.result_messages
           /\ clock' = IF r.is_running THEN clock ELSE 0
    /\ invoked' = << >>
    /\ released' = ReleasedAfter
    /\ UNCHANGED << categories, cursorVars, is_root, show_help,
                    show_progress_screen, search_active,
                    demo_operations_completed, total_bytes_cleaned, gateVars,
                    should_quit, detailVars >>

----------------------------------------------------------------------------
(* handle_key (lines 762-1060), one action per key and per side of its     *)
(* first test, `if self.password_prompt.is_visible()`.  Keys that only     *)
(* change view settings (j k m s p v o f y c, PageUp, PageDown,            *)
(* Ctrl-Space) touch none of the fields modelled here and are left out, as *)
(* are the keys the visible prompt ignores.                                *)

PromptVisible == is_visible(password_prompt)

\* A key handler calls no run function and, unless it is q, does not end the loop.
NoCalls ==
    /\ invoked' = << >>
    /\ released' = ReleasedAfter
    /\ UNCHANGED << should_quit, detailVars >>

\* The characters typed into the prompt; which ones they are plays no part
\* in what the program does with them (q is a command key when the prompt
\* is hidden).
PwChars == { "q" }

\* KeyCode::Char(c) while the prompt is visible (lines 826-828).
PromptChar ==
    /\ ~should_quit
    /\ PromptVisible
    /\ Len(password_prompt.password_input) < MaxPwLen
    /\ \E c \in PwChars : password_prompt' = add_char(password_prompt, c)
    /\ UNCHANGED << categories, cursorVars, is_root, show_help, search_active,
                    runVars, result_messages, needs_sudo, pending_operations >>
    /\ NoCalls

\* KeyCode::Backspace while the prompt is visible (lines 829-831).
PromptBackspace ==
    /\ ~should_quit
    /\ PromptVisible
    /\ password_prompt' = remove_char(password_prompt)
    /\ UNCHANGED << categories, cursorVars, is_root, show_help, search_active,
                    runVars, result_messages, needs_sudo, pending_operations >>
    /\ NoCalls

\* Faulty variant: only the first queued entry is set Pending.
DispatchQueued_FirstOnly(cats, queued) ==
    [ categories |->
          SetStatus([ e \in Entries |-> [ cats[e] EXCEPT !.bytes_cleaned = 0 ] ],
                    { queued[1] }, Pending),
      is_running |-> TRUE,
      demo_operation_timer |-> "Some",
      operation_end_time |-> "None",
      result_messages |-> << >> ]

\* Faulty variant: bytes_cleaned of earlier runs is kept.
DispatchQueued_KeepsBytes(cats, queued) ==
    LET pending == SetStatus(cats, SeqToSet(queued), Pending)
        r == update_counters(pending, TRUE, "Some", "None", << >>)
    IN  [ categories |-> pending,
          is_running |-> r.is_running,
          demo_operation_timer |-> r.demo_operation_timer,
          operation_end_time |-> r.operation_end_time,
          result_messages |-> r.result_messages ]

\* The fields the Ok(true) branch of Enter writes when it dispatches the
\* queued request (lines 780-805): bytes_cleaned of every entry is reset,
\* statuses are not, the queued entries become Pending, then
\* update_counters runs.
DispatchQueued(cats, queued) ==
    LET reset == [ e \in Entries |-> [ cats[e] EXCEPT !.bytes_cleaned = 0 ] ]
        pending == SetStatus(reset, SeqToSet(queued), Pending)
        r == update_counters(pending, TRUE, "Some", "None", << >>)
    IN  [ categories |-> pending,
          is_running |-> r.is_running,
          demo_operation_timer |-> r.demo_operation_timer,
          operation_end_time |-> r.operation_end_time,
          result_messages |-> r.result_messages ]

\* Faulty variant: the prompt is hidden after every submission.
PromptAfterSubmit_AlwaysHide(r) == hide(r.prompt)

\* Faulty variant: the Err branch forgets to hide the prompt.
PromptAfterSubmit_NotOnErr(r) ==
    IF r.result = "Ok(true)" THEN hide(r.prompt) ELSE r.prompt

\* What handle_key does with the prompt after submit returned (lines
\* 769-817): hidden on Ok(true) and on Err, left as it is on Ok(false).
PromptAfterSubmit(r) ==
    IF r.result = "Ok(false)" THEN r.prompt ELSE hide(r.prompt)

\* Enter on the prompt: submit, then one branch per result (lines 766-819).
SubmitCredential(outcome) ==
    LET r == submit(password_prompt, outcome)
    IN  /\ password_prompt' = PromptAfterSubmit(r)
        /\ CASE r.result = "Ok(true)" ->
                  /\ needs_sudo' = FALSE
                  /\ pending_operations' = << >>
                  /\ IF pending_operations # << >>
                     THEN LET d == DispatchQueued(categories, pending_operations)
                          IN  /\ categories' = d.categories
                              /\ is_running' = d.is_running
                              /\ demo_operation_timer' = d.demo_operation_timer
                              /\ operation_end_time' = d.operation_end_time
                              /\ result_messages' = d.result_messages
                              /\ show_progress_screen' = TRUE
                              /\ clock' = 0
                              /\ demo_operations_completed' = 0
                              /\ total_bytes_cleaned' = 0
                     ELSE UNCHANGED << categories, runVars, result_messages >>
             [] r.result = "Ok(false)" ->
                  UNCHANGED << categories, runVars, result_messages, needs_sudo,
                               pending_operations >>
             [] OTHER ->
                  /\ needs_sudo' = FALSE
                  /\ pending_operations' = << >>
                  /\ UNCHANGED << categories, runVars, result_messages >>

PromptEnter ==
    /\ ~should_quit
    /\ PromptVisible
    /\ \E outcome \in SudoOutcomes : SubmitCredential(outcome)
    /\ UNCHANGED << cursorVars, is_root, show_help, search_active >>
    /\ NoCalls

\* Esc on the prompt (lines 820-825).
PromptEsc ==
    /\ ~should_quit
    /\ PromptVisible
    /\ password_prompt' = cancel(password_prompt)
    /\ needs_sudo' = FALSE
    /\ pending_operations' = << >>
    /\ UNCHANGED << categories, cursorVars, is_root, show_help, search_active,
                    runVars, result_messages >>
    /\ NoCalls

\* Enter (lines 887-891).
KeyEnter ==
    /\ ~should_quit
    /\ ~PromptVisible
    /\ IF ~show_help THEN run_selected ELSE UNCHANGED appVars
    /\ NoCalls

\* q and Esc during a run (lines 842-845, 907-909).
CancelRun ==
    /\ is_running' = FALSE
    /\ categories' = cancel_sudo_operations(categories)
    /\ result_messages' = Append(result_messages, MsgCancelled)
    /\ clock' = 0
    /\ UNCHANGED << cursorVars, is_root, show_help, show_progress_screen,
                    search_active, operation_end_time, demo_operation_timer,
                    demo_operations_completed, total_bytes_cleaned, gateVars >>

\* Esc (lines 904-914).
KeyEsc ==
    /\ ~should_quit
    /\ ~PromptVisible
    /\ IF search_active THEN
           /\ search_active' = FALSE
           /\ UNCHANGED << categories, cursorVars, is_root, show_help, runVars,
                           result_messages, gateVars >>
       ELSE IF is_running THEN
           CancelRun
       ELSE IF show_progress_screen THEN
           /\ show_progress_screen' = FALSE
           /\ UNCHANGED << categories, cursorVars, is_root, show_help,
                           search_active, is_running, operation_end_time,
                           demo_operation_timer, clock, demo_operations_completed,
                           total_bytes_cleaned, result_messages, gateVars >>
       ELSE
           UNCHANGED appVars
    /\ NoCalls

\* q (lines 839-849).
KeyQ ==
    /\ ~should_quit
    /\ ~PromptVisible
    /\ invoked' = << >>
    /\ UNCHANGED detailVars
    /\ IF show_help THEN
           /\ show_help' = FALSE
           /\ UNCHANGED << categories, cursorVars, is_root, search_active, runVars,
                           result_messages, gateVars, should_quit >>
       ELSE IF is_running THEN
           CancelRun /\ UNCHANGED should_quit
       ELSE
           /\ should_quit' = TRUE
           /\ UNCHANGED appVars
    /\ released' = ReleasedAfter

\* item_list_state.selected() = None.
NoneSelected == 0

\* Faulty variant: the entry under the cursor is selected, not flipped.
toggle_selected_SetsTrue(cats) ==
    IF item_list_state = NoneSelected THEN cats
    ELSE [ cats EXCEPT ![<< category_index, item_list_state >>].selected = TRUE ]

\* toggle_selected (lines 359-365).
toggle_selected(cats) ==
    IF item_list_state = NoneSelected THEN cats
    ELSE [ cats EXCEPT ![<< category_index, item_list_state >>].selected = ~@ ]

\* Faulty variant: every entry of every category is selected.
select_all_Everywhere(cats) ==
    [ e \in Entries |-> [ cats[e] EXCEPT !.selected = TRUE ] ]

\* select_all / deselect_all (lines 391-402): the current category only.
select_all(cats) ==
    [ e \in Entries |->
        IF e[1] = category_index THEN [ cats[e] EXCEPT !.selected = TRUE ] ELSE cats[e] ]

deselect_all(cats) ==
    [ e \in Entries |->
        IF e[1] = category_index THEN [ cats[e] EXCEPT !.selected = FALSE ] ELSE cats[e] ]

\* Faulty variant: every status is cleared, not only the errors.
clear_errors_All(cats) ==
    [ e \in Entries |-> [ cats[e] EXCEPT !.status = NoStatus ] ]

\* clear_errors (lines 1188-1197).
clear_errors(cats) ==
    [ e \in Entries |->
        IF IsError(cats[e].status) THEN [ cats[e] EXCEPT !.status = NoStatus ]
        ELSE cats[e] ]

\* A key whose handler only rewrites the entries, when help is not shown.
EntriesKey(new_categories) ==
    /\ ~should_quit
    /\ ~PromptVisible
    /\ IF ~show_help THEN
           /\ categories' = new_categories
           /\ UNCHANGED << cursorVars, is_root, show_help, search_active, runVars,
                           result_messages, gateVars >>
       ELSE
           UNCHANGED appVars
    /\ NoCalls

\* Space (lines 881-885), a (927-931), n (933-937), x (994-998).
KeySpace == EntriesKey(toggle_selected(categories))
KeyA == EntriesKey(select_all(categories))
KeyN == EntriesKey(deselect_all(categories))
KeyX == EntriesKey(clear_errors(categories))

\* Any character bound to no command (lines 1000-1006): a search character
\* while search is active (search_query is not modelled), else a toggle.
KeyOtherChar ==
    /\ ~should_quit
    /\ ~PromptVisible
    /\ IF search_active THEN
           UNCHANGED appVars
       ELSE IF ~show_help THEN
           /\ categories' = toggle_selected(categories)
           /\ UNCHANGED << cursorVars, is_root, show_help, search_active, runVars,
                           result_messages, gateVars >>
       ELSE
           UNCHANGED appVars
    /\ NoCalls

\* ? or h (lines 893-895).
KeyHelp ==
    /\ ~should_quit
    /\ ~PromptVisible
    /\ show_help' = ~show_help
    /\ UNCHANGED << categories, cursorVars, is_root, search_active, runVars,
                    result_messages, gateVars >>
    /\ NoCalls

\* / (lines 898-902): toggle_search.
KeySlash ==
    /\ ~should_quit
    /\ ~PromptVisible
    /\ IF ~show_help THEN
           /\ search_active' = ~search_active
           /\ UNCHANGED << categories, cursorVars, is_root, show_help, runVars,
                           result_messages, gateVars >>
       ELSE
           UNCHANGED appVars
    /\ NoCalls

\* Faulty variant: the cursor does not wrap around after the last item.
next_item_NoWrap ==
    IF item_list_state = NoneSelected THEN 1 ELSE item_list_state + 1

\* next_item / previous_item (lines 329-357).
next_item ==
    IF item_list_state = NoneSelected THEN 1
    ELSE IF item_list_state >= ItemsLen(category_index) THEN 1
    ELSE item_list_state + 1

previous_item ==
    IF item_list_state = NoneSelected THEN 1
    ELSE IF item_list_state = 1 THEN ItemsLen(category_index)
    ELSE item_list_state - 1

\* next_category / previous_category (lines 367-385).
next_category == IF category_index < NumCategories THEN category_index + 1 ELSE 1
previous_category == IF category_index > 1 THEN category_index - 1 ELSE NumCategories

\* A key that moves the item cursor unless the progress view is showing
\* (there it scrolls the result list instead).
ItemCursorKey(new_item) ==
    /\ ~should_quit
    /\ ~PromptVisible
    /\ IF ~show_help /\ ~(is_running \/ show_progress_screen) THEN
           /\ item_list_state' = new_item
           /\ UNCHANGED << categories, category_index, is_root, show_help,
                           search_active, runVars, result_messages, gateVars >>
       ELSE
           UNCHANGED appVars
    /\ NoCalls

\* Down (lines 852-860), Up (861-869), Home (1031-1039), End (1040-1055).
KeyDown == ItemCursorKey(next_item)
KeyUp == ItemCursorKey(previous_item)
KeyHome == ItemCursorKey(1)
KeyEnd == ItemCursorKey(ItemsLen(category_index))

\* A key that changes the category and resets the item cursor.
CategoryKey(new_category) ==
    /\ ~should_quit
    /\ ~PromptVisible
    /\ IF ~show_help THEN
           /\ category_index' = new_category
           /\ item_list_state' = 1
           /\ UNCHANGED << categories, is_root, show_help, search_active, runVars,
                           result_messages, gateVars >>
       ELSE
           UNCHANGED appVars
    /\ NoCalls

\* Tab (lines 870-874), BackTab (875-879).
KeyTab == CategoryKey(next_category)
KeyBackTab == CategoryKey(previous_category)

----------------------------------------------------------------------------
(* The event loop (main.rs lines 138-172)                                  *)

Next ==
    \/ PromptEnter \/ PromptEsc \/ PromptChar \/ PromptBackspace
    \/ KeyEnter \/ KeyEsc \/ KeyQ
    \/ KeySpace \/ KeyA \/ KeyN \/ KeyX \/ KeyOtherChar
    \/ KeyHelp \/ KeySlash
    \/ KeyDown \/ KeyUp \/ KeyHome \/ KeyEnd \/ KeyTab \/ KeyBackTab
    \/ Tick
    \/ UpdateCounters

Spec == Init /\ [][Next]_vars

----------------------------------------------------------------------------
(* The detailed results store (app.rs lines 1219-1241)                     *)

\* "Keep only last 1000 items" (line 1238).
DetailedItemsLimit == 1000

\* The number of tuples in add_sample_cleaned_items' sample_items.
NumSampleItems == 15

\* The run-lifecycle fields stay as App::new left them.
AppIdle == UNCHANGED << appVars, should_quit, invoked, released >>

\* Faulty variant: nothing is evicted.
add_detailed_cleaned_item_NoEviction(items, item) == Append(items, item)

\* Faulty variant: over the limit the newest record is dropped.
add_detailed_cleaned_item_DropsNewest(items, item) ==
    LET pushed == Append(items, item)
    IN  IF Len(pushed) > DetailedItemsLimit
        THEN SubSeq(pushed, 1, Len(pushed) - 1)
        ELSE pushed

\* add_detailed_cleaned_item: push, then remove(0) when over the limit.
add_detailed_cleaned_item(items, item) ==
    LET pushed == Append(items, item)
    IN  IF Len(pushed) > DetailedItemsLimit THEN Tail(pushed) ELSE pushed

\* items after inserting the records numbered from + 1 .. to, in order.
RECURSIVE InsertNumbered(_, _, _)
InsertNumbered(items, from, to) ==
    IF from >= to THEN items
    ELSE InsertNumbered(add_detailed_cleaned_item(items, from + 1), from + 1, to)

\* In StoreSpec a record is the ordinal of its insertion: what the record
\* holds plays no part in add_detailed_cleaned_item.  App::new inserts the
\* samples (line 272).
StoreInit ==
    /\ AppNew
    /\ DetailIdle!3 /\ DetailIdle!4 /\ DetailIdle!5 /\ DetailIdle!6
    /\ DetailIdle!7 /\ DetailIdle!8
    /\ detailed_cleaned_items = InsertNumbered(<< >>, 0, NumSampleItems)
    /\ insertions = NumSampleItems

\* One add_detailed_cleaned_item call of update_demo_operations, for a
\* record read from the output (line 647) or for the summary record
\* (line 672).
StoreInsert ==
    /\ insertions < MaxInsertions
    /\ detailed_cleaned_items' =
           add_detailed_cleaned_item(detailed_cleaned_items, insertions + 1)
    /\ insertions' = insertions + 1
    /\ UNCHANGED << captured_result, search_query, detailed_view_filter,
                    sort_mode, filtered_items, phase >>
    /\ AppIdle

\* detailed_cleaned_items.clear() when a run is dispatched (lines 473, 789).
StoreClear ==
    /\ detailed_cleaned_items' = << >>
    /\ insertions' = 0
    /\ UNCHANGED << captured_result, search_query, detailed_view_filter,
                    sort_mode, filtered_items, phase >>
    /\ AppIdle

StoreSpec == StoreInit /\ [][StoreInsert \/ StoreClear]_vars

----------------------------------------------------------------------------
(* Reading a run function's output (app.rs lines 593-680)                  *)
(* A string is a sequence of one-character strings.                        *)

\* The least element of a set of indices, 0 for the empty set (None).
FirstIndex(S) == IF S = {} THEN 0 ELSE CHOOSE i \in S : \A j \in S : i <= j

\* str::contains.
Contains(s, sub) ==
    \E i \in 1..(Len(s) - Len(sub) + 1) : SubSeq(s, i, i + Len(sub) - 1) = sub

\* s continues with t from index i on.
StartsWithAt(s, i, t) ==
    i + Len(t) - 1 <= Len(s) /\ SubSeq(s, i, i + Len(t) - 1) = t

\* str::ends_with for one character.
ends_with(s, c) == Len(s) > 0 /\ s[Len(s)] = c

\* The words that make a line a candidate (lines 605-608).
Markers ==
    { << "R", "e", "m", "o", "v", "e", "d" >>,
      << "c", "l", "e", "a", "n", "e", "d" >>,
      << "C", "l", "e", "a", "n", "i", "n", "g" >>,
      << "f", "r", "e", "e", "d" >> }

HasMarker(line) == \E m \in Markers : Contains(line, m)

DigitChars == << "0", "1", "2", "3", "4", "5", "6", "7", "8", "9" >>
IsDigit(c) == \E d \in 1..10 : DigitChars[d] = c
DigitValue(c) == (CHOOSE d \in 1..10 : DigitChars[d] = c) - 1

\* The value of a run of digits; 0 for the empty run.
RECURSIVE DecimalValue(_)
DecimalValue(ds) ==
    IF ds = << >> THEN 0
    ELSE 10 * DecimalValue(SubSeq(ds, 1, Len(ds) - 1)) + DigitValue(ds[Len(ds)])

RECURSIVE Pow10(_)
Pow10(n) == IF n = 0 THEN 1 ELSE 10 * Pow10(n - 1)

\* The units of SIZE_REGEX with their factors (lines 631-636).
Units ==
    { [ text |-> << "K", "B" >>, factor |-> 1024 ],
      [ text |-> << "M", "B" >>, factor |-> 1024 * 1024 ],
      [ text |-> << "G", "B" >>, factor |-> 1024 * 1024 * 1024 ],
      [ text |-> << "b", "y", "t", "e", "s" >>, factor |-> 1 ] }

\* Where a greedy \d* that starts at index i of s stops: the first index
\* from i on that holds no digit, or Len(s) + 1.
DigitsEnd(s, i) ==
    FirstIndex({ j \in i..(Len(s) + 1) : j = Len(s) + 1 \/ ~IsDigit(s[j]) })

\* The same for \s*.
WhitespaceEnd(s, i) ==
    FirstIndex({ j \in i..(Len(s) + 1) : j = Len(s) + 1 \/ ~is_whitespace(s[j]) })

\* SIZE_REGEX, (\d+\.?\d*)\s*(KB|MB|GB|bytes), tried at index i of s.  The
\* greedy reading is the only one that can reach a unit: a shorter \d+ or
\* \d* leaves a digit, a skipped \.? leaves the dot, a shorter \s* leaves
\* white space before the unit.
SizeMatchAt(s, i) ==
    LET intEnd == DigitsEnd(s, i)
        hasDot == intEnd <= Len(s) /\ s[intEnd] = "."
        numEnd == IF hasDot THEN DigitsEnd(s, intEnd + 1) ELSE intEnd
        unitAt == WhitespaceEnd(s, numEnd)
        units == { u \in Units : StartsWithAt(s, unitAt, u.text) }
    IN  IF IsDigit(s[i]) /\ units # {}
        THEN [ matched |-> TRUE,
               whole |-> SubSeq(s, i, intEnd - 1),
               fraction |-> IF hasDot THEN SubSeq(s, intEnd + 1, numEnd - 1)
                            ELSE << >>,
               factor |-> (CHOOSE u \in units : TRUE).factor ]
        ELSE [ matched |-> FALSE ]

\* SIZE_REGEX.captures(line): the leftmost match.
SizeCaptures(line) ==
    LET at == FirstIndex({ i \in 1..Len(line) : SizeMatchAt(line, i).matched })
    IN  IF at = 0 THEN [ matched |-> FALSE ] ELSE SizeMatchAt(line, at)

\* (num * factor) as u64 for the captured number (lines 625-636): the
\* product rounded towards zero.  The number is whole + fraction / 10^d;
\* for the short numbers read here the f64 product has the same integer
\* part as the exact one.
SizeOfMatch(cap) ==
    DecimalValue(cap.whole) * cap.factor
      + (DecimalValue(cap.fraction) * cap.factor) \div Pow10(Len(cap.fraction))

\* Faulty variant: the size is always estimated from the bytes freed.
extracted_size_EstimateOnly(line, bytes) == bytes \div 10

\* extracted_size (lines 621-640).
extracted_size(line, bytes) ==
    LET cap == SizeCaptures(line)
    IN  IF cap.matched THEN SizeOfMatch(cap) ELSE bytes \div 10

\* The path read from a line (lines 611-618): from the first '/' to the
\* first quote or white space after it, or to the end of the line; the
\* empty string stands for a line without '/'.
PathOfLine(line) ==
    LET path_start == FirstIndex({ i \in 1..Len(line) : line[i] = "/" })
        stops == { i \in path_start..Len(line) :
                     line[i] \in { "\"", "'" } \/ is_whitespace(line[i]) }
        path_end == IF stops = {} THEN Len(line) + 1 ELSE FirstIndex(stops)
    IN  IF path_start = 0 THEN << >>
        ELSE trim(SubSeq(line, path_start, path_end - 1))

\* item_type (lines 641-646).
ItemTypeOfLine(line, path) ==
    IF ends_with(path, "/") \/ Contains(line, << "d", "i", "r", "e", "c", "t", "o", "r", "y" >>)
    THEN "Directory" ELSE "File"

\* The DetailedCleanedItem add_detailed_cleaned_item builds (lines 1227-1234).
DetailedCleanedItem(path, size, category, cleaner_name, item_type) ==
    [ path |-> path, size |-> size, category |-> category,
      cleaner_name |-> cleaner_name, timestamp |-> clock,
      item_type |-> item_type ]

\* The body of `for line in output.lines()` for one line (lines 603-662),
\* as far as the store goes.
ScanLine(items, line, bytes, category_name, name) ==
    LET path == PathOfLine(line)
    IN  IF HasMarker(line) /\ path # << >> /\ Len(path) > 1
        THEN add_detailed_cleaned_item(items,
                 DetailedCleanedItem(path, extracted_size(line, bytes),
                                     category_name, name,
                                     ItemTypeOfLine(line, path)))
        ELSE items

RECURSIVE ScanLines(_, _, _, _, _)
ScanLines(items, lines, bytes, category_name, name) ==
    IF lines = << >> THEN items
    ELSE ScanLines(ScanLine(items, Head(lines), bytes, category_name, name),
                   Tail(lines), bytes, category_name, name)

\* format!("{} (cleaned files)", name) (line 673).
SummaryPath(name) ==
    name \o << " ", "(", "c", "l", "e", "a", "n", "e", "d", " ", "f", "i", "l", "e",
                   "s", ")" >>

\* Faulty variant: no summary record is ever added.
WithFallback_Never(before, after, bytes, category_name, name) == after

\* The fallback (lines 668-680): one summary record when the store is as
\* long as it was before the scan and bytes were freed.
WithFallback(before, after, bytes, category_name, name) ==
    IF Len(after) = Len(before) /\ bytes > 0
    THEN add_detailed_cleaned_item(after,
             DetailedCleanedItem(SummaryPath(name), bytes, category_name, name,
                                 "Directory"))
    ELSE after

\* The store after the Ok arm has read the output of cleaner `name` of
\* category `category_name` (lines 600-680).
ParseOutput(items, captured, category_name, name) ==
    WithFallback(items,
                 ScanLines(items, captured.output, captured.bytes,
                           category_name, name),
                 captured.bytes, category_name, name)

\* The lines a run function prints, for the checks, by name.
OutputLines ==
    [ \* Removed /tmp/foo.tmp (15.5 MB)
      SizedFile |->
          << "R", "e", "m", "o", "v", "e", "d", " ", "/", "t", "m", "p", "/",
             "f", "o", "o", ".", "t", "m", "p", " ", "(", "1", "5", ".", "5",
             " ", "M", "B", ")" >>,
      \* Removed directory /var/cache 1 GB
      NamedDirectory |->
          << "R", "e", "m", "o", "v", "e", "d", " ", "d", "i", "r", "e", "c",
             "t", "o", "r", "y", " ", "/", "v", "a", "r", "/", "c", "a", "c",
             "h", "e", " ", "1", " ", "G", "B" >>,
      \* cleaned /tmp/d/ 512 KB
      SlashDirectory |->
          << "c", "l", "e", "a", "n", "e", "d", " ", "/", "t", "m", "p", "/",
             "d", "/", " ", "5", "1", "2", " ", "K", "B" >>,
      \* freed 100 bytes from '/a/b'
      QuotedPath |->
          << "f", "r", "e", "e", "d", " ", "1", "0", "0", " ", "b", "y", "t",
             "e", "s", " ", "f", "r", "o", "m", " ", "'", "/", "a", "/", "b",
             "'" >>,
      \* Cleaning /var/log
      NoSize |->
          << "C", "l", "e", "a", "n", "i", "n", "g", " ", "/", "v", "a", "r",
             "/", "l", "o", "g" >>,
      \* Removed "/opt/x" 5 mb
      LowerUnit |->
          << "R", "e", "m", "o", "v", "e", "d", " ", "\"", "/", "o", "p",
             "t", "/", "x", "\"", " ", "5", " ", "m", "b" >>,
      \* cleaned 2.5 KB in /tmp/c,
      SizeFirst |->
          << "c", "l", "e", "a", "n", "e", "d", " ", "2", ".", "5", " ", "K",
             "B", " ", "i", "n", " ", "/", "t", "m", "p", "/", "c", "," >>,
      \* Removed / 3 MB
      RootOnly |->
          << "R", "e", "m", "o", "v", "e", "d", " ", "/", " ", "3", " ", "M",
             "B" >>,
      \* Removed 7 files, 2 KB
      NoPath |->
          << "R", "e", "m", "o", "v", "e", "d", " ", "7", " ", "f", "i", "l",
             "e", "s", ",", " ", "2", " ", "K", "B" >>,
      \* Deleted /tmp/x 1 KB
      NoMarker |->
          << "D", "e", "l", "e", "t", "e", "d", " ", "/", "t", "m", "p", "/",
             "x", " ", "1", " ", "K", "B" >> ]

\* The captured outputs: up to MaxLines lines.
Outputs == UNION { [ 1..n -> Range(OutputLines) ] : n \in 0..MaxLines }

\* The bytes a run function reports as freed.
BytesReported == { 0, 5, 4096 }

\* The cleaner whose output is read, and its category (main.rs lines 77-117).
CleanerName == << "T", "e", "m", "p", "o", "r", "a", "r", "y", " ", "F", "i", "l", "e",
        "s" >>
CategoryName ==
    << "U", "s", "e", "r", " ", "L", "a", "n", "d", " ", "C", "l", "e", "a",
        "n", "e", "r", "s" >>

\* A record an earlier cleaner of the run left in the store.
PriorItem ==
    [ path |-> << "/", "p" >>, size |-> 1, category |-> CategoryName,
      cleaner_name |-> << "B", "r", "o", "w", "s", "e", "r", " ", "C", "a", "c", "h", "e", "s" >>, timestamp |-> 0,
      item_type |-> "File" ]

\* The store before the output is read: empty right after dispatch, or
\* holding earlier cleaners' records, up to the limit.
StoresBefore ==
    { << >>, << PriorItem >>, [ i \in 1..DetailedItemsLimit |-> PriorItem ] }

ExtractInit ==
    /\ AppNew
    /\ detailed_cleaned_items \in StoresBefore
    /\ DetailIdle!2
    /\ captured_result \in [ bytes : BytesReported, output : Outputs ]
    /\ DetailIdle!4 /\ DetailIdle!5 /\ DetailIdle!6 /\ DetailIdle!7
    /\ phase = "captured"

\* The Ok arm of update_demo_operations reads the captured output.
Extract ==
    /\ phase = "captured"
    /\ detailed_cleaned_items' =
           ParseOutput(detailed_cleaned_items, captured_result,
                       CategoryName, CleanerName)
    /\ phase' = "parsed"
    /\ UNCHANGED << insertions, captured_result, search_query,
                    detailed_view_filter, sort_mode, filtered_items >>
    /\ AppIdle

ExtractSpec == ExtractInit /\ [][Extract]_vars

----------------------------------------------------------------------------
(* The filtered, sorted view (app.rs lines 1278-1312)                      *)

UpperChars ==
    << "A", "B", "C", "D", "E", "F", "G", "H", "I", "J", "K", "L", "M", "N",
       "O", "P", "Q", "R", "S", "T", "U", "V", "W", "X", "Y", "Z" >>
LowerChars ==
    << "a", "b", "c", "d", "e", "f", "g", "h", "i", "j", "k", "l", "m", "n",
       "o", "p", "q", "r", "s", "t", "u", "v", "w", "x", "y", "z" >>

\* char::to_lowercase over the characters used here.
LowerChar(c) ==
    IF \E i \in 1..26 : UpperChars[i] = c
    THEN LowerChars[CHOOSE i \in 1..26 : UpperChars[i] = c]
    ELSE c

\* str::to_lowercase.
to_lowercase(t) == [ k \in 1..Len(t) |-> LowerChar(t[k]) ]

\* The characters used here in the order of their codes.
CharsByCode ==
    << " ", ".", "/" >> \o DigitChars \o UpperChars \o LowerChars
CharCode(c) == CHOOSE i \in 1..Len(CharsByCode) : CharsByCode[i] = c

\* a < b for strings (Ord for String: lexicographic by code).
RECURSIVE StrLess(_, _)
StrLess(a, b) ==
    IF b = << >> THEN FALSE
    ELSE IF a = << >> THEN TRUE
    ELSE IF Head(a) # Head(b) THEN CharCode(Head(a)) < CharCode(Head(b))
    ELSE StrLess(Tail(a), Tail(b))

\* Faulty variant: the category filter applies to search hits as well.
Matches_FilterToo(item, query, filter) ==
    /\ query # << >> =>
          LET query_lower == to_lowercase(query)
          IN  \/ Contains(to_lowercase(item.path), query_lower)
              \/ Contains(to_lowercase(item.category), query_lower)
              \/ Contains(to_lowercase(item.cleaner_name), query_lower)
    /\ filter # << >> =>
          Contains(to_lowercase(item.category), to_lowercase(filter))

\* The filter closure (lines 1282-1300).
Matches(item, query, filter) ==
    IF query # << >> THEN
        LET query_lower == to_lowercase(query)
        IN  \/ Contains(to_lowercase(item.path), query_lower)
            \/ Contains(to_lowercase(item.category), query_lower)
            \/ Contains(to_lowercase(item.cleaner_name), query_lower)
    ELSE IF filter # << >> THEN
        Contains(to_lowercase(item.category), to_lowercase(filter))
    ELSE TRUE

SortModes == { "Name", "Size", "Category", "Status" }

\* Faulty variant: Size sorts the smallest first.
ComesBefore_SizeAscending(a, b, mode) ==
    CASE mode = "Name" -> StrLess(a.path, b.path)
      [] mode = "Size" -> a.size < b.size
      [] mode = "Category" -> StrLess(a.category, b.category)
      [] mode = "Status" -> b.timestamp < a.timestamp

\* The comparators of lines 1304-1309 return Less for (a, b).
ComesBefore(a, b, mode) ==
    CASE mode = "Name" -> StrLess(a.path, b.path)
      [] mode = "Size" -> b.size < a.size
      [] mode = "Category" -> StrLess(a.category, b.category)
      [] mode = "Status" -> b.timestamp < a.timestamp

\* slice::sort_by is stable: refs is sorted by inserting its elements, in
\* their order, each before the first element it comes before.
RECURSIVE SortRefs(_, _, _)
SortRefs(refs, items, mode) ==
    IF refs = << >> THEN << >>
    ELSE LET sorted == SortRefs(SubSeq(refs, 1, Len(refs) - 1), items, mode)
             x == refs[Len(refs)]
             after == { k \in 1..Len(sorted) :
                          ComesBefore(items[x], items[sorted[k]], mode) }
             at == IF after = {} THEN Len(sorted) + 1 ELSE FirstIndex(after)
         IN  SubSeq(sorted, 1, at - 1) \o << x >> \o SubSeq(sorted, at, Len(sorted))

\* get_filtered_detailed_items: references into the store, as indices.
get_filtered_detailed_items(items, query, filter, mode) ==
    LET Keep(k) == Matches(items[k], query, filter)
        all == [ k \in 1..Len(items) |-> k ]
    IN  SortRefs(SelectSeq(all, Keep), items, mode)

\* Records for the checks, by name, without their time stamps.
QueryItems ==
    [ Pip |->
        [ path |-> << "/", "A", "/", "p", "i", "p", ".", "w", "h", "l" >>,
          size |-> 2, category |-> << "C", "a", "c", "h", "e" >>,
          cleaner_name |-> << "p", "i", "p" >>,
          item_type |-> "File" ],
      Log |->
        [ path |-> << "/", "v", "a", "r", "/", "x" >>,
          size |-> 1, category |-> << "L", "o", "g", "s" >>,
          cleaner_name |-> << "j", "o", "u", "r", "n", "a", "l" >>,
          item_type |-> "Log" ],
      Tmp |->
        [ path |-> << "/", "t", "m", "p", "/", "L", "O", "G" >>,
          size |-> 2, category |-> << "T", "e", "m", "p" >>,
          cleaner_name |-> << "t", "m", "p" >>,
          item_type |-> "File" ],
      Npm |->
        [ path |-> << "/", "n", "/" >>,
          size |-> 3, category |-> << "c", "a", "c", "h", "e" >>,
          cleaner_name |-> << "P", "i", "p" >>,
          item_type |-> "Directory" ] ]

\* The record with the time stamp add_detailed_cleaned_item gives it: later
\* insertions have later stamps.
Stamped(item, now) ==
    [ path |-> item.path, size |-> item.size, category |-> item.category,
      cleaner_name |-> item.cleaner_name, timestamp |-> now,
      item_type |-> item.item_type ]

\* The stores a query is made on.
QueryStores ==
    { [ k \in 1..Len(f) |-> Stamped(f[k], k) ] :
        f \in UNION { [ 1..n -> Range(QueryItems) ] : n \in 0..MaxStored } }

\* What the user has typed as search text and as category filter.
SearchQueries ==
    [ none |-> << >>, PIP |-> << "P", "I", "P" >>, log |-> << "l", "o", "g" >> ]
CategoryFilters ==
    [ none |-> << >>, CACHE |-> << "C", "A", "C", "H", "E" >>,
      lo |-> << "l", "o" >> ]

QueryInit ==
    /\ AppNew
    /\ detailed_cleaned_items \in QueryStores
    /\ DetailIdle!2 /\ DetailIdle!3
    /\ search_query \in Range(SearchQueries)
    /\ detailed_view_filter \in Range(CategoryFilters)
    /\ sort_mode \in SortModes
    /\ filtered_items = << >>
    /\ phase = "asked"

\* The detailed view calls get_filtered_detailed_items (&self).
Query ==
    /\ phase = "asked"
    /\ filtered_items' =
           get_filtered_detailed_items(detailed_cleaned_items, search_query,
                                       detailed_view_filter, sort_mode)
    /\ phase' = "answered"
    /\ UNCHANGED << detailed_cleaned_items, insertions, captured_result,
                    search_query, detailed_view_filter, sort_mode >>
    /\ AppIdle

QuerySpec == QueryInit /\ [][Query]_vars

----------------------------------------------------------------------------
(* Properties                                                              *)

Authenticated == is_authenticated(password_prompt)
PromptHidden == ~is_visible(password_prompt)
Queue == SeqToSet(pending_operations)
StatusOf(e) == categories[e].status

\* A step in which Enter reaches run_selected.
RunSelectedStep == KeyEnter /\ ~show_help

\* C1: run_selected with no run in progress, not root and an
\* elevation-requiring entry selected parks the request: the prompt becomes
\* visible, pending_operations holds every selected entry in catalog order,
\* is_running stays false and no entry changes.
C1_RequestParkedBehindPrompt ==
    [][ ( /\ RunSelectedStep
          /\ ~is_running
          /\ ~is_root
          /\ \E e \in SelectedEntries(categories) : Catalog[e[1]][e[2]] )
        => ( /\ is_visible(password_prompt')
             /\ SeqToSet(pending_operations') = SelectedEntries(categories)
             /\ Len(pending_operations') = Cardinality(SelectedEntries(categories))
             /\ needs_sudo'
             /\ ~is_running'
             /\ categories' = categories ) ]_vars

\* A mixed request (one elevation-free, one elevation-requiring entry) is parked.
C1_Witness ==
    /\ is_visible(password_prompt)
    /\ ~is_root
    /\ ~is_running
    /\ \E e, f \in Queue : requires_root(e) /\ ~requires_root(f)
    /\ \A e \in Queue : StatusOf(e) = NoStatus

\* C2: once a verification has succeeded, a run request with
\* elevation-requiring entries selected is dispatched at once, without the
\* prompt: the selected entries are Pending and is_running is true.
C2_NoRepromptOnceAuthenticated ==
    [][ ( /\ RunSelectedStep
          /\ ~is_running
          /\ Authenticated
          /\ \E e \in SelectedEntries(categories) : requires_root(e) )
        => ( /\ ~is_visible(password_prompt')
             /\ is_running'
             /\ \A e \in SelectedEntries(categories) :
                    categories'[e].status = Pending ) ]_vars

\* C3: Esc on the prompt, the process not being root, leaves every
\* elevation-requiring entry of the parked request with status Error and
\* deselected.
C3_CancelledAuthenticationFailsEntries ==
    [][ ( PromptEsc /\ ~is_root )
        => \A e \in Queue :
               requires_root(e) =>
                   /\ IsError(categories'[e].status)
                   /\ ~categories'[e].selected ]_vars

SubmitStep(outcome) ==
    /\ ~should_quit
    /\ PromptVisible
    /\ SubmitCredential(outcome)

\* C5: a successful verification authenticates the gate, hides the prompt,
\* sets every queued entry Pending, empties the queue and starts the run
\* (is_running true, pacing timer started).
C5_SuccessDispatchesQueue ==
    [][ SubmitStep("success")
        => ( /\ is_authenticated(password_prompt')
             /\ ~is_visible(password_prompt')
             /\ \A e \in Queue : categories'[e].status = Pending
             /\ pending_operations' = << >>
             /\ is_running'
             /\ demo_operation_timer' = "Some"
             /\ clock' = 0 ) ]_vars

\* A queued mixed request has been dispatched by a successful verification.
C5_Witness ==
    /\ Authenticated
    /\ PromptHidden
    /\ ~is_root
    /\ is_running
    /\ demo_operations_completed = 0
    /\ pending_operations = << >>
    /\ \E e, f \in Entries :
           /\ requires_root(e) /\ ~requires_root(f)
           /\ StatusOf(e) = Pending /\ StatusOf(f) = Pending

\* C6: a failed verification changes nothing but the prompt's buffer and
\* error message: the prompt stays visible, the queue, is_running and
\* every entry are as before.
C6_FailureKeepsQueue ==
    [][ SubmitStep("failure")
        => ( /\ is_visible(password_prompt')
             /\ ~is_authenticated(password_prompt') = ~Authenticated
             /\ pending_operations' = pending_operations
             /\ pending_operations' # << >>
             /\ needs_sudo' = needs_sudo
             /\ ~is_running'
             /\ categories' = categories ) ]_vars

\* A verification has failed and the request is still queued.
C6_Witness ==
    /\ is_visible(password_prompt)
    /\ password_prompt.error_message # "None"
    /\ Cardinality(Queue) = 2
    /\ ~is_running

\* C7: Esc on the prompt hides it, empties the queue, clears needs_sudo and
\* starts nothing: is_running is false, no run function is called, no entry
\* becomes Pending or Running.
C7_CancelDiscardsQueue ==
    [][ PromptEsc
        => ( /\ ~is_visible(password_prompt')
             /\ pending_operations' = << >>
             /\ ~needs_sudo'
             /\ ~is_running'
             /\ invoked' = << >>
             /\ categories' = categories ) ]_vars

\* The state right after a cancelled prompt: hidden, never authenticated,
\* the request's entries still selected and without status.
C7_Witness ==
    /\ PromptHidden
    /\ ~Authenticated
    /\ ~is_root
    /\ ~is_running
    /\ pending_operations = << >>
    /\ \E e \in SelectedEntries(categories) :
           requires_root(e) /\ StatusOf(e) = NoStatus

\* C8: the credential buffer is empty after every submission, whatever its
\* outcome, after Esc, and whenever the prompt has just been shown or is
\* hidden.
C8_BufferClearedAfterSubmit ==
    [][ ( \/ PromptEnter
          \/ PromptEsc
          \/ (~is_visible(password_prompt) /\ is_visible(password_prompt'))
          \/ ~is_visible(password_prompt') )
        => password_prompt'.password_input = << >> ]_vars

\* A credential was typed and submitted, verification failed, and the
\* buffer is empty.
C8_Witness ==
    /\ is_visible(password_prompt)
    /\ password_prompt.error_message # "None"
    /\ password_prompt.password_input = << >>

\* C9: run_selected with no run in progress, something selected and either
\* no elevation-requiring entry selected or the process root dispatches at
\* once: is_running, prompt hidden, selected entries Pending, all others
\* without status.
C9_ImmediateDispatch ==
    [][ ( /\ RunSelectedStep
          /\ ~is_running
          /\ SelectedEntries(categories) # {}
          /\ ( is_root \/ \A e \in SelectedEntries(categories) : ~requires_root(e) ) )
        => ( /\ is_running'
             /\ ~is_visible(password_prompt')
             /\ \A e \in Entries :
                    categories'[e].status =
                        IF categories[e].selected THEN Pending ELSE NoStatus
             /\ \A e \in Entries : categories'[e].selected = categories[e].selected ) ]_vars

\* A dispatch without the prompt: one entry Pending, another (not selected)
\* without status, nothing promoted yet.
C9_Witness ==
    /\ is_running
    /\ PromptHidden
    /\ ~Authenticated
    /\ demo_operations_completed = 0
    /\ \E e, f \in Entries :
           /\ categories[e].selected /\ StatusOf(e) = Pending
           /\ ~categories[f].selected /\ StatusOf(f) = NoStatus

\* C10: in a run in progress in which no entry is Pending or Running, the
\* completion check finishes the run: is_running false, pacing timer
\* cleared, end timestamp recorded.
C10_CompletionCheckFinishesRun ==
    [][ ( /\ UpdateCounters
          /\ is_running
          /\ WithStatus(categories, Pending) = {}
          /\ WithStatus(categories, Running) = {} )
        => ( /\ ~is_running'
             /\ demo_operation_timer' = "None"
             /\ operation_end_time' = "Some" ) ]_vars

\* The number of completion messages in result_messages.
CompletionMessages ==
    Cardinality({ k \in 1..Len(result_messages) : result_messages[k] = MsgCompleted })

\* C11: once a run has been marked finished (is_running false, end time
\* recorded), no tick and no completion check takes the completion branch
\* again: result_messages, is_running and the end time stay as they are;
\* and result_messages never holds more than one completion message.
C11_CompletionIdempotent ==
    /\ [](CompletionMessages <= 1)
    /\ [][ ( /\ Tick \/ UpdateCounters
             /\ ~is_running
             /\ operation_end_time = "Some" )
           => ( /\ ~IsComplete(categories, is_running)
                /\ result_messages' = result_messages
                /\ is_running' = is_running
                /\ operation_end_time' = operation_end_time ) ]_vars

\* A finished run: its completion message is the last message and every
\* entry it ran is terminal.
C11_Witness ==
    /\ ~is_running
    /\ operation_end_time = "Some"
    /\ demo_operation_timer = "None"
    /\ CompletionMessages = 1
    /\ \E e \in Entries : StatusOf(e) = Success

\* A step in which q or Esc reaches its cancel branch: a run is in progress
\* and the key is not taken by the help overlay (q) or the search input (Esc).
CancelStep ==
    /\ is_running
    /\ (KeyQ /\ ~show_help) \/ (KeyEsc /\ ~search_active)

\* C12: a cancel during a run sets every selected entry that is Pending or
\* Running to Error(cancelled by user) and deselects it, and is_running
\* becomes false; while is_running is false a tick promotes nothing and
\* calls no run function.
C12_CancelFinishesRun ==
    /\ [][ CancelStep
           => ( /\ \A e \in Entries :
                      ( categories[e].selected
                        /\ categories[e].status \in { Pending, Running } )
                      => ( /\ categories'[e].status = ErrCancelled
                           /\ ~categories'[e].selected )
                /\ ~is_running'
                /\ invoked' = << >> ) ]_vars
    /\ [][ ( Tick /\ ~is_running )
           => ( /\ categories' = categories
                /\ demo_operations_completed' = demo_operations_completed
                /\ invoked' = << >>
                /\ ~is_running' ) ]_vars

\* A run cancelled half-way: one entry was executed, another was cancelled
\* while Pending.
C12_Witness ==
    /\ ~is_running
    /\ demo_operation_timer = "Some"
    /\ \E k \in 1..Len(result_messages) : result_messages[k] = MsgCancelled
    /\ \E e, f \in Entries :
           /\ StatusOf(e) = Success
           /\ StatusOf(f) = ErrCancelled /\ ~categories[f].selected

\* C13: at most one entry is Running in any state, and a tick calls at
\* most one run function.
C13_SingleOperationActive ==
    /\ Cardinality(WithStatus(categories, Running)) <= 1
    /\ Len(invoked) <= 1

\* A tick has executed one entry while another was waiting.
C13_Witness ==
    /\ is_running
    /\ Len(invoked) = 1
    /\ Cardinality(WithStatus(categories, Pending)) = 2

\* C14: the entry a tick takes out of Pending, and the entry whose run
\* function it calls, is the first Pending entry in catalog order; during a
\* run no entry becomes Pending.
C14_PromotionInCatalogOrder ==
    /\ [][ Tick
           => ( /\ \A e \in WithStatus(categories, Pending) :
                      categories'[e].status # Pending
                      => \A f \in WithStatus(categories, Pending) : ~Before(f, e)
                /\ \A k \in 1..Len(invoked') :
                      /\ categories[invoked'[k]].status = Pending
                      /\ \A f \in WithStatus(categories, Pending) :
                             ~Before(f, invoked'[k]) ) ]_vars
    /\ [][ ( is_running /\ is_running' )
           => WithStatus(categories', Pending) \subseteq WithStatus(categories, Pending)
         ]_vars

\* The second entry has just been executed, after the first and before the
\* third.
C14_Witness ==
    /\ is_running
    /\ invoked = << << 2, 1 >> >>
    /\ StatusOf(<< 1, 1 >>) \in { Success, ErrFailed }
    /\ StatusOf(<< 2, 2 >>) = Pending

\* C15: during a run the number of promotions is at most
\* floor(elapsed / 1500 ms), and a tick promotes at most one entry.
C15_PacingBound ==
    /\ [](is_running => demo_operations_completed <= clock \div 1500)
    /\ [][ Tick
           => ( /\ demo_operations_completed' >= demo_operations_completed
                /\ demo_operations_completed' <= demo_operations_completed + 1 ) ]_vars

\* The bound is met with equality: two promotions at 3000 ms.
C15_Witness ==
    /\ is_running
    /\ demo_operations_completed = 2
    /\ clock = 3000
    /\ WithStatus(categories, Pending) # {}

\* C16: a tick does not execute an entry it has itself promoted: an entry
\* that is Pending before a tick is Pending or Running after it, and a run
\* function is called only for an entry that was Running before the tick.
C16_ExecutedOnlyAfterRunDuration ==
    [][ Tick
        => ( /\ \A e \in WithStatus(categories, Pending) :
                   categories'[e].status \in { Pending, Running }
             /\ \A k \in 1..Len(invoked') :
                   categories[invoked'[k]].status = Running ) ]_vars

\* The fields the loop body works on, with entry e promoted to Running.
Promoted(e) ==
    [ categories |-> SetStatus(categories, { e }, Running),
      needs_sudo |-> needs_sudo,
      password_prompt |-> password_prompt,
      is_running |-> is_running,
      result_messages |-> result_messages,
      total_bytes_cleaned |-> total_bytes_cleaned,
      invoked |-> << >> ]

\* C17: in the real and in the simulated scheduler alike, when the entry a
\* tick is about to promote is executed and its run function returns an
\* error, the entry's status becomes Error, its bytes_cleaned is left as it
\* was and total_bytes_cleaned is not incremented.
C17_FailedRunCountsNoBytes ==
    \A e \in WithStatus(categories, Pending) :
        ( is_running /\ \A f \in WithStatus(categories, Pending) : ~Before(f, e) )
        => LET failed == [ kind |-> "err", bytes |-> 0 ]
           IN  \A r \in { ExecuteOne(Promoted(e), e, failed),
                          ui_ExecuteOne(Promoted(e), e, failed) } :
                   e \in SeqToSet(r.invoked)
                   => ( /\ IsError(r.categories[e].status)
                        /\ r.categories[e].bytes_cleaned = categories[e].bytes_cleaned
                        /\ r.total_bytes_cleaned = total_bytes_cleaned )

\* C18: a tick on which an entry ends in Error changes no other entry and,
\* if entries are still Pending, leaves the run in progress with its pacing
\* timer; a tick that finds the pacing due takes one Pending entry to a
\* terminal status whatever errors there have been; and a run ends while
\* entries are Pending only by a cancel.
C18_ErrorsAreLocal ==
    /\ [][ Tick
           => \A e \in Entries :
                  ( ~IsError(categories[e].status) /\ IsError(categories'[e].status) )
                  => ( /\ \A f \in Entries \ { e } : categories'[f] = categories[f]
                       /\ WithStatus(categories', Pending) # {}
                          => ( is_running' /\ demo_operation_timer' = "Some" ) ) ]_vars
    /\ [][ ( /\ Tick
             /\ is_running
             /\ WithStatus(categories, Pending) # {}
             /\ clock' \div START_INTERVAL > demo_operations_completed )
           => \E e \in WithStatus(categories, Pending) :
                  /\ categories'[e].status \in { Success } \cup ErrorStatuses
                  /\ WithStatus(categories', Pending)
                         = WithStatus(categories, Pending) \ { e } ]_vars
    /\ [][ ( is_running /\ ~is_running' /\ WithStatus(categories, Pending) # {} )
           => CancelStep ]_vars

\* An entry has failed and the entry after it has just been executed.
C18_Witness ==
    /\ is_running
    /\ Len(invoked) = 1
    /\ \E e \in Entries :
           /\ IsError(StatusOf(e))
           /\ Before(e, invoked[1])
           /\ StatusOf(invoked[1]) = Success

\* r is text with the blanks at both ends removed.
IsTrimOf(r, text) ==
    /\ r = << >> \/ ( r[1] # " " /\ r[Len(r)] # " " )
    /\ \E a, b \in 0..Len(text) :
           /\ a + Len(r) + b = Len(text)
           /\ \A k \in 1..Len(text) :
                  text[k] = IF k <= a \/ k > a + Len(r) THEN " " ELSE r[k - a]

\* r is the trimmed text after the last ':' of text.
IsTerminalSegment(r, text) ==
    \E k \in 0..Len(text) :
        /\ k = 0 \/ text[k] = ":"
        /\ \A j \in (k + 1)..Len(text) : text[j] # ":"
        /\ IsTrimOf(r, SubSeq(text, k + 1, Len(text)))

\* C19: when the entry a tick is about to promote is executed (its run
\* function is called) and fails with some error text, the reason stored
\* in its Error status is, after the "Failed: " prefix, the trimmed text
\* after the last ':' of that text, for user and system entries alike.
C19_ReasonIsTerminalSegment ==
    \A e \in WithStatus(categories, Pending) :
        ( /\ is_running
          /\ \A f \in WithStatus(categories, Pending) : ~Before(f, e)
          /\ ~LacksPrivilege(e, password_prompt) )
        => \A text \in ErrorTexts :
               LET reason == error_msg(e, text)
               IN  /\ Head(reason) = "Failed: "
                   /\ IsTerminalSegment(Tail(reason), text)

\* The number of elevation hints in result_messages.
HintMessages ==
    Cardinality({ k \in 1..Len(result_messages) : result_messages[k] = MsgHint })

\* C20: result_messages never holds more than one elevation hint.
C20_HintAtMostOnce == HintMessages <= 1

\* Two system entries have failed in one run and there is one hint.
C20_Witness ==
    /\ Cardinality(WithStatus(categories, ErrSudo)) = 2
    /\ HintMessages = 1

CursorEntry == << category_index, item_list_state >>

\* A step in which Space reaches toggle_selected.
ToggleStep == KeySpace /\ ~show_help

\* C28: toggle_selected flips the selected flag of the entry under the
\* cursor, whatever its requires_root flag and the session's privilege, and
\* changes no other entry, no status and no byte count; toggling twice
\* gives back the original entries.
C28_ToggleFlipsCursorEntry ==
    [][ ToggleStep
        => ( /\ categories'[CursorEntry].selected = ~categories[CursorEntry].selected
             /\ \A e \in Entries \ { CursorEntry } : categories'[e] = categories[e]
             /\ \A e \in Entries :
                    /\ categories'[e].status = categories[e].status
                    /\ categories'[e].bytes_cleaned = categories[e].bytes_cleaned
             /\ toggle_selected(categories') = categories ) ]_vars

\* A system entry selected by a session that is neither root nor
\* authenticated, next to a user entry deselected after its run.
C28_Witness ==
    /\ ~is_root
    /\ ~Authenticated
    /\ \E e, f \in Entries :
           /\ requires_root(e) /\ categories[e].selected
           /\ ~requires_root(f) /\ ~categories[f].selected /\ StatusOf(f) = Success

\* C29: select_all (a) and deselect_all (n) set the selected flag of every
\* entry of the current category, to true and to false, and change nothing
\* else: entries of other categories, statuses and byte counts are as
\* before; applying either twice is the same as applying it once.
C29_SelectAllWithinCategory ==
    [][ ( (KeyA \/ KeyN) /\ ~show_help )
        => ( /\ \A e \in Entries :
                    /\ e[1] = category_index => ( categories'[e].selected <=> KeyA )
                    /\ e[1] # category_index => categories'[e] = categories[e]
                    /\ categories'[e].status = categories[e].status
                    /\ categories'[e].bytes_cleaned = categories[e].bytes_cleaned
             /\ select_all(select_all(categories)) = select_all(categories)
             /\ deselect_all(deselect_all(categories)) = deselect_all(categories) ) ]_vars

\* The whole system category is selected and the user category is not.
C29_Witness ==
    /\ category_index = 2
    /\ \A e \in Entries : categories[e].selected <=> e[1] = 2

\* A step that dispatches a run.
DispatchStep == ~is_running /\ is_running'

\* A step in which x reaches clear_errors.
ClearErrorsStep == KeyX /\ ~show_help

\* C30 as stated: an entry leaves Success or Error only by clear_errors,
\* which sets an Error entry to None.
C30_TerminalUntilCleared ==
    [][ \A e \in Entries :
          ( categories[e].status \in { Success } \cup ErrorStatuses
            /\ categories'[e].status # categories[e].status )
          => ( /\ ClearErrorsStep
               /\ IsError(categories[e].status)
               /\ categories'[e].status = NoStatus ) ]_vars

\* C30 as amended: statuses move forward only (None stays None, Pending
\* goes to Running, Success or Error, Running to Success or Error) and an
\* entry leaves Success or Error only by clear_errors, except in a step
\* that dispatches a run, which resets the statuses.
C30_ForwardOnlyWithinRun ==
    [][ \A e \in Entries :
          ( categories'[e].status # categories[e].status /\ ~DispatchStep )
          => CASE categories[e].status = NoStatus -> FALSE
               [] categories[e].status = Pending ->
                      categories'[e].status \in { Running, Success } \cup ErrorStatuses
               [] categories[e].status = Running ->
                      categories'[e].status \in { Success } \cup ErrorStatuses
               [] categories[e].status = Success -> FALSE
               [] OTHER ->
                      ClearErrorsStep /\ categories'[e].status = NoStatus ]_vars

\* One run has left a Success and an Error, and the next run has not
\* touched them: the Success entry is still there while another entry is
\* Pending.
C30_Witness ==
    /\ is_running
    /\ \E e, f \in Entries :
           /\ StatusOf(e) = Success
           /\ StatusOf(f) = Pending
           /\ Before(f, e)

Min(a, b) == IF a <= b THEN a ELSE b

\* C22: the result store never holds more than 1000 records, however many
\* records are inserted and whenever the store is cleared in between.
C22_StoreBounded == Len(detailed_cleaned_items) <= 1000

\* The store is full and records have been evicted.
C22_Witness ==
    /\ Len(detailed_cleaned_items) = 1000
    /\ insertions = 1002

\* C23: after n insertions into an empty store the store holds exactly the
\* last min(n, 1000) inserted records, in insertion order; after 1001
\* insertions the first record is gone and the 1001st is the last element.
C23_EvictionIsFifo ==
    LET n == insertions
        len == Len(detailed_cleaned_items)
    IN  /\ len = Min(n, 1000)
        /\ \A k \in 1..len : detailed_cleaned_items[k] = n - len + k
        /\ n = 1001 =>
              /\ \A k \in 1..len : detailed_cleaned_items[k] # 1
              /\ detailed_cleaned_items[len] = 1001

\* 1001 records were inserted into an empty store: the second is now first.
C23_Witness ==
    /\ insertions = 1001
    /\ detailed_cleaned_items[1] = 2
    /\ detailed_cleaned_items[1000] = 1001

\* What the C25 rule says one line yields: no record, or one record with
\* the path between the first '/' and the next white space or quote, the
\* size of the size token (or bytes \div 10 without one) and the kind.
LineYield(line, bytes) ==
    CASE line = OutputLines.SizedFile ->
           << [ path |-> << "/", "t", "m", "p", "/", "f", "o", "o", ".", "t", "m", "p" >>,
                size |-> 16252928, item_type |-> "File" ] >>
      [] line = OutputLines.NamedDirectory ->
           << [ path |-> << "/", "v", "a", "r", "/", "c", "a", "c", "h", "e" >>,
                size |-> 1073741824, item_type |-> "Directory" ] >>
      [] line = OutputLines.SlashDirectory ->
           << [ path |-> << "/", "t", "m", "p", "/", "d", "/" >>,
                size |-> 524288, item_type |-> "Directory" ] >>
      [] line = OutputLines.QuotedPath ->
           << [ path |-> << "/", "a", "/", "b" >>, size |-> 100, item_type |-> "File" ] >>
      [] line = OutputLines.NoSize ->
           << [ path |-> << "/", "v", "a", "r", "/", "l", "o", "g" >>,
                size |-> bytes \div 10, item_type |-> "File" ] >>
      [] line = OutputLines.LowerUnit ->
           << [ path |-> << "/", "o", "p", "t", "/", "x" >>,
                size |-> bytes \div 10, item_type |-> "File" ] >>
      [] line = OutputLines.SizeFirst ->
           << [ path |-> << "/", "t", "m", "p", "/", "c", "," >>,
                size |-> 2560, item_type |-> "File" ] >>
      [] OTHER -> << >>

RECURSIVE OutputYield(_, _)
OutputYield(lines, bytes) ==
    IF lines = << >> THEN << >>
    ELSE LineYield(Head(lines), bytes) \o OutputYield(Tail(lines), bytes)

\* The records the cleaner whose output was read has in the store.
IsOfCleaner(r) == r.cleaner_name = CleanerName
AddedItems == SelectSeq(detailed_cleaned_items, IsOfCleaner)

\* Those read from output lines, as path, size and kind.
IsScanned(r) == r.path # SummaryPath(CleanerName)
ScannedItems ==
    LET scanned == SelectSeq(AddedItems, IsScanned)
    IN  [ k \in 1..Len(scanned) |->
            [ path |-> scanned[k].path, size |-> scanned[k].size,
              item_type |-> scanned[k].item_type ] ]

\* C24: when the output yields no record, the store gets exactly one
\* summary record, "<cleaner name> (cleaned files)" with the bytes freed as
\* size and kind Directory, if bytes were freed, and no record if none were.
C24_FallbackSummary ==
    ( phase = "parsed"
      /\ OutputYield(captured_result.output, captured_result.bytes) = << >> )
    => IF captured_result.bytes > 0
       THEN /\ Len(AddedItems) = 1
            /\ AddedItems[1].path = CleanerName \o << " ", "(", "c", "l", "e", "a", "n", "e", "d", " ", "f", "i", "l", "e", "s", ")" >>
            /\ AddedItems[1].size = captured_result.bytes
            /\ AddedItems[1].item_type = "Directory"
            /\ detailed_cleaned_items[Len(detailed_cleaned_items)] = AddedItems[1]
       ELSE AddedItems = << >>

\* Output with lines, none of which yields a record, and bytes freed: the
\* summary record follows the earlier cleaner's record.
C24_Witness ==
    /\ phase = "parsed"
    /\ captured_result = [ bytes |-> 4096,
                           output |-> << OutputLines.NoMarker, OutputLines.RootOnly >> ]
    /\ Len(detailed_cleaned_items) = 2
    /\ detailed_cleaned_items[2].size = 4096
    /\ detailed_cleaned_items[2].item_type = "Directory"

\* C25: each line of the output yields the record the rule gives, or none,
\* in the order of the lines (the store not being full).
C25_LineYieldsRecord ==
    ( phase = "parsed" /\ Len(detailed_cleaned_items) < 1000 )
    => ScannedItems = OutputYield(captured_result.output, captured_result.bytes)

\* 'Removed /tmp/foo.tmp (15.5 MB)' has been read.
C25_Witness ==
    /\ phase = "parsed"
    /\ captured_result.output = << OutputLines.SizedFile >>
    /\ Len(detailed_cleaned_items) = 1
    /\ detailed_cleaned_items[1].path = << "/", "t", "m", "p", "/", "f", "o", "o", ".", "t", "m", "p" >>
    /\ detailed_cleaned_items[1].size = 16252928
    /\ detailed_cleaned_items[1].item_type = "File"

\* The record at index k of the store, without its time stamp.
Unstamped(k) ==
    LET r == detailed_cleaned_items[k]
    IN  [ path |-> r.path, size |-> r.size, category |-> r.category,
          cleaner_name |-> r.cleaner_name, item_type |-> r.item_type ]

\* The records whose path, category or cleaner name contains the search
\* text, whatever the case of the letters.
SearchHits ==
    CASE search_query = SearchQueries.PIP -> { QueryItems.Pip, QueryItems.Npm }
      [] search_query = SearchQueries.log -> { QueryItems.Log, QueryItems.Tmp }

\* The records whose category contains the filter text, whatever the case.
FilterHits ==
    CASE detailed_view_filter = CategoryFilters.CACHE -> { QueryItems.Pip, QueryItems.Npm }
      [] detailed_view_filter = CategoryFilters.lo -> { QueryItems.Log }

\* The indices of the store a query is to return.
Wanted ==
    { k \in 1..Len(detailed_cleaned_items) :
        IF search_query # << >> THEN Unstamped(k) \in SearchHits
        ELSE IF detailed_view_filter # << >> THEN Unstamped(k) \in FilterHits
        ELSE TRUE }

\* C26: with a search text the result holds exactly the records matching
\* it in path, category or cleaner name, the category filter being ignored;
\* without one and with a category filter, exactly the records whose
\* category matches the filter; with neither, every record.
C26_FilterModesExclusive ==
    phase = "answered" => SeqToSet(filtered_items) = Wanted

\* A search text and a category filter are both set, and a record that the
\* filter alone would drop is in the result.
C26_Witness ==
    /\ phase = "answered"
    /\ search_query = SearchQueries.log
    /\ detailed_view_filter = CategoryFilters.CACHE
    /\ Len(detailed_cleaned_items) = 3
    /\ \E k \in SeqToSet(filtered_items) : Unstamped(k) = QueryItems.Tmp

\* C27: under sort mode Size the result is non-increasing in size and is
\* a permutation of the filtered records, none dropped and none twice; the
\* call leaves the store as it was.
C27_SizeSortDescending ==
    /\ [] ( ( phase = "answered" /\ sort_mode = "Size" )
            => /\ \A i, j \in 1..Len(filtered_items) :
                     i < j => /\ detailed_cleaned_items[filtered_items[i]].size
                                    >= detailed_cleaned_items[filtered_items[j]].size
                              /\ filtered_items[i] # filtered_items[j]
               /\ SeqToSet(filtered_items) = Wanted )
    /\ [][ Query => detailed_cleaned_items' = detailed_cleaned_items ]_vars

\* Three records of sizes 1, 2, 3 stored smallest first come back largest
\* first.
C27_Witness ==
    /\ phase = "answered"
    /\ sort_mode = "Size"
    /\ Len(detailed_cleaned_items) = 3
    /\ Unstamped(1) = QueryItems.Log /\ Unstamped(2) = QueryItems.Pip /\ Unstamped(3) = QueryItems.Npm
    /\ filtered_items = << 3, 2, 1 >>

\* C31: once a verification has succeeded is_authenticated() stays true:
\* no step (showing, hiding or cancelling the prompt, typing, a failed or
\* errored submission, or anything else) makes it false again.
C31_AuthenticatedIsSticky ==
    [][ Authenticated => is_authenticated(password_prompt') ]_vars

\* An authenticated session has been prompted again and a submission has
\* failed.
C31_Witness ==
    /\ Authenticated
    /\ is_visible(password_prompt)
    /\ password_prompt.error_message # "None"

\* C32: a new prompt is hidden and unauthenticated; whatever the prompt's
\* state and typed characters, it is visible after show(), hidden after
\* hide() and after cancel(), and show, hide, cancel, add_char and
\* remove_char leave is_authenticated() as it was; and the steps that call
\* them (Enter parking a request, Esc, a character, Backspace) do so.
C32_VisibilityProtocol ==
    /\ [] LET p == password_prompt
          IN  /\ ~is_visible(PromptNew) /\ ~is_authenticated(PromptNew)
              /\ is_visible(show(p))
              /\ ~is_visible(hide(p))
              /\ ~is_visible(cancel(p))
              /\ \A q \in { show(p), hide(p), cancel(p), remove_char(p) }
                           \cup { add_char(p, c) : c \in PwChars } :
                     is_authenticated(q) = is_authenticated(p)
    /\ [][ /\ PromptEsc => ~is_visible(password_prompt')
           /\ ( RunSelectedStep /\ ~is_running /\ NeedsPrompt(categories) )
                 => is_visible(password_prompt')
           /\ ( PromptEsc \/ PromptChar \/ PromptBackspace \/ KeyEnter )
                 => ( is_authenticated(password_prompt') <=> Authenticated ) ]_vars

\* The prompt is up in an authenticated session with a character typed:
\* show() has acted on an authenticated prompt, then add_char().
C32_Witness ==
    /\ Authenticated
    /\ is_visible(password_prompt)
    /\ password_prompt.password_input # << >>

\* C34: whenever no run is in progress no entry is Pending or Running; in
\* particular a cancel leaves none.
C34_NoActiveEntryOutsideRun ==
    ~is_running => WithStatus(categories, Pending) \cup WithStatus(categories, Running) = {}

\* C33: during a run a run function is invoked only for entries of the
\* request that was dispatched for that run.
C33_OnlyReleasedEntriesRun ==
    [][ \A k \in 1..Len(invoked') : invoked'[k] \in released ]_vars

\* The summary records the cleaner whose output was read has in the store.
IsSummary(r) == r.path = SummaryPath(CleanerName)
SummaryItems == SelectSeq(AddedItems, IsSummary)

\* C35: when the output yields at least one record no summary record is
\* added, whatever the store held before, a full store included.
C35_NoSummaryAfterExtraction ==
    ( phase = "parsed"
      /\ OutputYield(captured_result.output, captured_result.bytes) # << >> )
    => SummaryItems = << >>

\* The sum of bytes_cleaned over a set of entries.
RECURSIVE BytesOf(_, _)
BytesOf(cats, S) ==
    IF S = {} THEN 0
    ELSE LET e == CHOOSE x \in S : TRUE
         IN  cats[e].bytes_cleaned + BytesOf(cats, S \ { e })

\* C36: in every reachable state total_bytes_cleaned is the sum of
\* bytes_cleaned over all entries, and an entry contributes at most once
\* per run: its bytes_cleaned changes only when a dispatch resets it to 0
\* or when the entry goes from Pending or Running to Success.
C36_TotalIsSumOfEntries ==
    /\ [] ( total_bytes_cleaned = BytesOf(categories, Entries) )
    /\ [][ \A e \in Entries :
             categories'[e].bytes_cleaned # categories[e].bytes_cleaned
             => \/ DispatchStep /\ categories'[e].bytes_cleaned = 0
                \/ /\ StatusOf(e) \in { Pending, Running }
                   /\ categories'[e].status = Success ]_vars

\* Two entries have freed bytes in one run.
C36_Witness ==
    /\ total_bytes_cleaned = 2
    /\ \E e, f \in Entries :
           /\ e # f
           /\ categories[e].bytes_cleaned = 1
           /\ categories[f].bytes_cleaned = 1

\* C37: in every reachable state the queue pending_operations is non-empty
\* exactly when the prompt is visible and exactly when needs_sudo is true,
\* and no run is in progress while the prompt is visible.
C37_GateConsistency ==
    /\ ( pending_operations # << >> ) <=> is_visible(password_prompt)
    /\ ( pending_operations # << >> ) <=> needs_sudo
    /\ ~( is_running /\ is_visible(password_prompt) )

\* A request is parked behind the prompt after an earlier run has left its
\* results, and a submission has failed.
C37_Witness ==
    /\ is_visible(password_prompt)
    /\ Len(pending_operations) = 2
    /\ needs_sudo
    /\ password_prompt.error_message # "None"
    /\ \E e \in Entries : StatusOf(e) = Success

\* A step in which a character key with a command bound to it (q, Space,
\* a, n, x) or any other character is pressed.
CharKeyStep == KeyQ \/ KeySpace \/ KeyA \/ KeyN \/ KeyX \/ KeyOtherChar

\* C38, what a character key must leave alone while search input is
\* active and the prompt is hidden: no entry's selection or status changes,
\* no run is cancelled and quit is not signalled.
C38_SearchInputOnlyTypes ==
    [][ ( search_active /\ ~PromptVisible /\ CharKeyStep )
        => /\ \A e \in Entries :
                 /\ categories'[e].selected = categories[e].selected
                 /\ categories'[e].status = categories[e].status
           /\ is_running' = is_running
           /\ should_quit' = should_quit ]_vars

\* C39: Enter pressed while a run is in progress changes no entry's
\* status, selection or byte count, nor the total, the timers, the message
\* list, the queue, the prompt or the result store: the run is not
\* restarted.
C39_RunRequestIgnoredWhileRunning ==
    [][ ( RunSelectedStep /\ is_running )
        => UNCHANGED << categories, runVars, result_messages, gateVars,
                        detailed_cleaned_items >> ]_vars

\* A run is under way with one entry done, one waiting and a further
\* selection made: Enter here would start another run were it not ignored.
C39_Witness ==
    /\ is_running
    /\ ~is_visible(password_prompt)
    /\ \E e, f, g \in Entries :
           /\ StatusOf(e) = Success
           /\ StatusOf(f) = Pending
           /\ StatusOf(g) = NoStatus /\ categories[g].selected

\* C40: in every reachable state category_index names a category and the
\* item cursor names an entry of that category, so toggle_selected indexes
\* within bounds.
C40_CursorValid ==
    /\ category_index \in 1..NumCategories
    /\ item_list_state \in 1..ItemsLen(category_index)

\* The cursor is on the last entry of the last category.
C40_Witness ==
    /\ category_index = NumCategories
    /\ item_list_state = ItemsLen(NumCategories)
    /\ ~show_help

====
